---- MODULE Spec2Model ----
(***************************************************************************)
(* AgentClient of the agent-chat frontend: one sendMessage invocation,     *)
(* its streaming attempt over an EventSource, and its non-streaming        *)
(* fallback POST.  Every handler of the client (timer callback, onmessage, *)
(* onerror, the continuations of each await) is one action.  Time is       *)
(* counted in ticks; `now' is the browser clock.  Further down: two        *)
(* overlapping invocations on the one client, and the Chat component that  *)
(* calls the client.                                                       *)
(***************************************************************************)
EXTENDS Naturals, Sequences, FiniteSets, TLC

\* this.timeout, in ticks of the model clock
Timeout == 2

\* number of messages the server may push on one connection
MaxEvents == 3

\* the clock runs over the two timeout windows of one invocation and one tick
\* beyond
MaxTime == 2 * Timeout + 1

(***************************************************************************)
(* JavaScript values.  Text is a TLA+ string; `undefined' is Absent.       *)
(***************************************************************************)
Absent == "<undefined>"

\* JS truthiness of an optional string: undefined and '' are falsy
Truthy(s) == s # Absent /\ s # ""

\* JS `a || b' on optional strings
OrElse(a, b) == IF Truthy(a) THEN a ELSE b

\* type Message, without timestamp (Chat.tsx strips it before the call)
Turn(role, content) == [role |-> role, content |-> content]

\* interface ChatRequest
ChatRequest(cid, msg, hist) == [conversationId |-> cid, message |-> msg, history |-> hist]

\* a first message, a message with an empty identifier, and a follow-up turn
Requests ==
    { ChatRequest(Absent, "hi", <<>>),
      ChatRequest("", "hi", <<>>),
      ChatRequest("c0", "more", <<Turn("user", "hi"), Turn("assistant", "ok")>>) }

\* interface SSEEvent as pushed by the server: event.data is a JSON text that
\* is an object, the literal null, or not JSON at all.  done: absent is FALSE.
SSEObject(cid, answer, error, done) ==
    [shape |-> "object", conversationId |-> cid, answer |-> answer,
     error |-> error, done |-> done]

SSENull == [shape |-> "null", conversationId |-> Absent, answer |-> Absent,
            error |-> Absent, done |-> FALSE]

SSEInvalid == [shape |-> "invalid", conversationId |-> Absent, answer |-> Absent,
               error |-> Absent, done |-> FALSE]

SSEEvents ==
    { SSEObject(Absent, "a", Absent, FALSE),
      SSEObject("c1", "b", Absent, FALSE),
      SSEObject("", "", "", FALSE),
      SSEObject(Absent, Absent, Absent, TRUE),
      SSEObject(Absent, "b", Absent, TRUE),
      SSEObject("c2", Absent, Absent, TRUE),
      SSEObject(Absent, Absent, "boom", FALSE),
      SSEObject("c1", "a", "boom", TRUE),
      SSENull,
      SSEInvalid }

\* interface ChatResponse, and the settled value of a promise
Pending == [kind |-> "pending", conversationId |-> "", answer |-> "", error |-> ""]

Resolved(cid, answer) ==
    [kind |-> "resolved", conversationId |-> cid, answer |-> answer, error |-> ""]

Rejected(msg) ==
    [kind |-> "rejected", conversationId |-> "", answer |-> "", error |-> msg]

\* bodies the server may answer the POST with
ServerResponses == { Resolved("c2", "ok"), Resolved("c9", "ab") }

VARIABLES
    pc,                 \* where sendMessage is suspended
    request,            \* the ChatRequest argument
    onChunk,            \* TRUE iff the onChunk argument was supplied
    now,                \* browser clock
    eventSource,        \* "none", "open" or "closed" (readyState CLOSED)
    streamUrl,          \* query parameters of the EventSource URL
    accumulatedAnswer,  \* local of sendMessageWithStreaming
    conversationId,     \* local of sendMessageWithStreaming
    streamTimer,        \* timeoutId of sendMessageWithStreaming
    streamPromise,      \* the promise sendMessageWithStreaming returns
    streamSettles,      \* calls of resolve/reject of that promise
    fetchTimer,         \* timeoutId of sendMessageNonStreaming
    httpStatus,         \* status of the response the fetch resolved with
    httpBody,           \* body of a response with a non-success status
    nonStreamingPromise,\* the promise sendMessageNonStreaming returns
    posts,              \* bodies of the POSTs issued by fetch
    connections,        \* EventSource objects constructed
    events,             \* event.data of every message dispatched to onmessage
    chunks,             \* arguments of every onChunk call
    result,             \* the promise sendMessage returns
    returns             \* times sendMessage settled

\* the state of one sendMessage invocation
clientVars ==
    <<pc, request, onChunk, now, eventSource, streamUrl, accumulatedAnswer,
      conversationId, streamTimer, streamPromise, streamSettles, fetchTimer,
      httpStatus, httpBody, nonStreamingPromise, posts, connections, events,
      chunks, result, returns>>

\* a timer: whether it is pending, when it fires, and when it was armed
NoTimer == [pending |-> FALSE, deadline |-> 0, armedAt |-> 0]

ClientInit ==
    /\ pc = "idle"
    /\ request \in Requests
    /\ onChunk \in BOOLEAN
    /\ now = 0
    /\ eventSource = "none"
    /\ streamUrl = <<>>
    /\ accumulatedAnswer = ""
    /\ conversationId = ""
    /\ streamTimer = NoTimer
    /\ streamPromise = Pending
    /\ streamSettles = 0
    /\ fetchTimer = NoTimer
    /\ httpStatus = ""
    /\ httpBody = Absent
    /\ nonStreamingPromise = Pending
    /\ posts = <<>>
    /\ connections = 0
    /\ events = <<>>
    /\ chunks = <<>>
    /\ result = Pending
    /\ returns = 0


(***************************************************************************)
(* Two invocations and the Chat component: values and initial state.       *)
(***************************************************************************)
VARIABLES
    calls,              \* per invocation: request, events heard, callback calls, outcome
    cells,              \* per scope: the locals of the two private methods
    pairNow             \* the browser clock of the two invocations

pairVars == <<calls, cells, pairNow>>

VARIABLES
    mounted,            \* Chat has rendered
    conversation,       \* useState: ConversationState
    isTyping,           \* useState
    chatError,          \* useState error: null is Absent
    inputMessage,       \* useState message of ChatInput
    storage,            \* localStorage.getItem('agent-chat-conversation')
    effects,            \* effects scheduled by the last render, in order
    updates,            \* values given to setConversation since the last render
    sends,              \* agentClient.sendMessage calls of Chat and their outcomes
    storedAtMount,      \* the item in storage when the page was opened
    userActed           \* the user has typed or clicked since mount

chatVars == <<mounted, conversation, isTyping, chatError, inputMessage, storage, effects,
              updates, sends, storedAtMount, userActed>>

VARIABLES
    twin,               \* the client without and the client with telemetry, side by side
    span                \* the span of the instrumented sendMessage

twinVars == <<twin, span>>

vars == <<clientVars, pairVars, chatVars, twinVars>>

\* the two invocations, in the order they are started
Calls == {1, 2}

\* number of messages the server may push on each of the two connections
MaxPairEvents == 2

\* requests, stream events and POST outcomes of the two invocations
PairRequests ==
    { ChatRequest(Absent, "hi", <<>>),
      ChatRequest("c0", "more", <<Turn("user", "hi"), Turn("assistant", "ok")>>) }

PairEvents ==
    { SSEObject(Absent, "a", Absent, FALSE),
      SSEObject("c1", "b", Absent, FALSE),
      SSEObject("c2", Absent, Absent, TRUE),
      SSEObject(Absent, Absent, "boom", FALSE) }

PairOutcomes == { Resolved("c9", "ok") }

\* the clock of the two invocations runs over the timeout window of the first
\* and one tick of the second beyond it
MaxPairTime == Timeout + 1

IdleCall ==
    [pc |-> "idle", request |-> ChatRequest(Absent, "", <<>>), startedAt |-> 0,
     events |-> <<>>, chunks |-> <<>>, streamPromise |-> Pending, posts |-> <<>>,
     result |-> Pending]

NoCell ==
    [eventSource |-> "none", accumulatedAnswer |-> "", conversationId |-> "",
     timer |-> NoTimer, fetchTimer |-> NoTimer]

PairInit ==
    /\ calls = [i \in Calls |-> IdleCall]
    /\ cells = [i \in Calls |-> NoCell]
    /\ pairNow = 0

\* the two versions of the client
Variants == {"plain", "traced"}

\* bodies a 200 response may carry: a ChatResponse, and a JSON object without
\* an answer
TwinBodies == { Resolved("c2", "ok"), Resolved("c2", Absent) }

IdleTwin ==
    [pc |-> "idle", request |-> ChatRequest(Absent, "", <<>>), onChunk |-> FALSE,
     eventSource |-> "none", timer |-> [pending |-> FALSE, id |-> Absent],
     fetchTimer |-> FALSE, accumulatedAnswer |-> "", conversationId |-> "",
     received |-> 0, connections |-> <<>>, posts |-> <<>>, chunks |-> <<>>,
     httpStatus |-> "", result |-> Pending]

\* a span: calls of startActiveSpan and end, the status, the events added and
\* the exceptions recorded.  okIsFinal: the tracing SDK in the bundle ignores
\* setStatus once the status is OK.
NoSpan ==
    [started |-> 0, ended |-> 0, okIsFinal |-> FALSE, status |-> "UNSET",
     events |-> <<>>, exceptions |-> 0]

TwinInit ==
    /\ twin = [v \in Variants |-> IdleTwin]
    /\ span = NoSpan

\* number of sendMessage calls the Chat component makes
MaxSends == 3

\* interface Message; timestamp is a Date
Message(role, content, timestamp) ==
    [role |-> role, content |-> content, timestamp |-> timestamp]

\* new Date(text), and new Date() on the day of the session
DateFrom(text) == [kind |-> "Date", value |-> text]

NewDate == DateFrom("2026-11-02")

\* timestamp: undefined
NoTimestamp == [kind |-> "undefined", value |-> ""]

\* Date.prototype.toJSON
ToJSON(date) == date.value

\* useState<ConversationState>({ messages: [] })
EmptyConversation == [conversationId |-> Absent, messages |-> <<>>]

\* JSON.stringify(conversation): a key whose value is undefined is omitted, a
\* Date becomes its ISO text
StringifyConversation(c) ==
    [hasConversationId |-> c.conversationId # Absent,
     conversationId |-> IF c.conversationId # Absent THEN c.conversationId ELSE "",
     messages |-> [k \in 1..Len(c.messages) |->
                      <<c.messages[k].role, c.messages[k].content,
                        IF c.messages[k].timestamp # NoTimestamp
                        THEN ToJSON(c.messages[k].timestamp) ELSE Absent>>]]

\* JSON.parse(stored) and the conversion of the timestamp texts of the load
\* effect
ParseConversation(text) ==
    [conversationId |-> IF text.hasConversationId THEN text.conversationId ELSE Absent,
     messages |-> [k \in 1..Len(text.messages) |->
                      Message(text.messages[k][1], text.messages[k][2],
                              IF Truthy(text.messages[k][3])
                              THEN DateFrom(text.messages[k][3]) ELSE NoTimestamp)]]

\* getItem of a key that is not stored: null
NoItem == [null |-> TRUE]

\* what an earlier session may have left in storage
StoredItems ==
    { NoItem,
      StringifyConversation(EmptyConversation),
      StringifyConversation(
          [conversationId |-> "c1",
           messages |-> <<Message("user", "hi", DateFrom("2026-11-01")),
                          Message("assistant", "ok", DateFrom("2026-11-01"))>>]) }

\* texts the user types
InputTexts == {"hi", " yo ", " "}

\* outcomes of agentClient.sendMessage
ChatResponses == { Resolved("c5", "ok") }

ChatFailures == { Rejected("Request timeout") }

ChatInit(stored) ==
    /\ mounted = FALSE
    /\ conversation = EmptyConversation
    /\ isTyping = FALSE
    /\ chatError = Absent
    /\ inputMessage = ""
    /\ storage = stored
    /\ effects = <<>>
    /\ updates = <<>>
    /\ sends = <<>>
    /\ storedAtMount = stored
    /\ userActed = FALSE

(***************************************************************************)
(* Serialisation.                                                          *)
(***************************************************************************)
\* JSON.stringify(request.history): the turns in order, each as its role and
\* content
StringifyHistory(hist) == [i \in 1..Len(hist) |-> <<hist[i].role, hist[i].content>>]

\* what the server reads back from a serialised history
ParseHistory(text) == [i \in 1..Len(text) |-> Turn(text[i][1], text[i][2])]

\* new URLSearchParams({...}) of sendMessageWithStreaming
StreamQuery(req) ==
    [message |-> req.message,
     conversationId |-> OrElse(req.conversationId, ""),
     history |-> StringifyHistory(req.history)]

\* JSON.stringify(request) of sendMessageNonStreaming: a key whose value is
\* undefined is omitted from the text
PostBody(req) ==
    [hasConversationId |-> req.conversationId # Absent,
     conversationId |-> IF req.conversationId # Absent THEN req.conversationId ELSE "",
     message |-> req.message,
     history |-> StringifyHistory(req.history)]

(***************************************************************************)
(* sendMessageWithStreaming                                                *)
(***************************************************************************)
\* Error objects: name and message
Err(name, message) == [name |-> name, message |-> message]

\* variant: a cleanup that clears the timer but forgets eventSource.close()
cleanupLeavesOpen(es, timer, timerId) ==
    [eventSource |-> es,
     timer |-> IF timerId THEN [timer EXCEPT !.pending = FALSE] ELSE timer]

\* cleanup(timerId): eventSource.close(); if (timerId) clearTimeout(timerId).
\* timerId is TRUE for cleanup(timeoutId), FALSE for cleanup(undefined).
\* variant: a cleanup that closes the connection and leaves the timer armed
cleanupKeepsTimer(es, timer, timerId) == [eventSource |-> "closed", timer |-> timer]

cleanup(es, timer, timerId) ==
    [eventSource |-> "closed",
     timer |-> IF timerId THEN [timer EXCEPT !.pending = FALSE] ELSE timer]

\* variant: accumulatedAnswer = data.answer
AppendAnswerReplaces(acc, fragment) == fragment

\* accumulatedAnswer += data.answer
AppendAnswer(acc, fragment) == acc \o fragment

\* variant: onChunk(accumulatedAnswer)
ReportAccumulated(acc, fragment) == <<acc>>

\* onChunk(data.answer): the arguments of the call
ReportChunk(acc, fragment) == <<fragment>>

\* variant: the error field is honoured only on events without done
HasErrorAfterDone(data) == Truthy(data.error) /\ ~data.done

\* if (data.error)
HasError(data) == Truthy(data.error)

\* variant: request.conversationId || conversationId || ''
FinalConversationIdPrefersRequest(cid, req) ==
    OrElse(req.conversationId, OrElse(cid, ""))

\* conversationId || request.conversationId || ''
FinalConversationId(cid, req) == OrElse(cid, OrElse(req.conversationId, ""))

\* variant: an event that cannot be parsed fails the attempt
NoEffectRejects(acc, cid) ==
    [accumulatedAnswer |-> acc, conversationId |-> cid, called |-> <<>>,
     settle |-> Rejected("Unexpected token")]

\* the catch block of onmessage: the error is logged, nothing else happens
NoEffect(acc, cid) ==
    [accumulatedAnswer |-> acc, conversationId |-> cid, called |-> <<>>,
     settle |-> Pending]

\* The body of eventSource.onmessage on event.data = raw, with the locals acc
\* and cid; throws tells whether the onChunk call throws.  Gives the new
\* locals, the onChunk calls made, and the resolve/reject made (Pending: none).
\* variant: a handler that tests the done flag before it looks at the answer
onmessageDoneFirst(acc, cid, req, raw, throws) ==
    IF raw.shape # "object" THEN NoEffect(acc, cid)
    ELSE IF HasError(raw)
    THEN [accumulatedAnswer |-> acc, conversationId |-> cid, called |-> <<>>,
          settle |-> Rejected(raw.error)]
    ELSE LET cid2 == IF Truthy(raw.conversationId) THEN raw.conversationId ELSE cid
             more == Truthy(raw.answer) /\ ~raw.done
             acc2 == IF more THEN AppendAnswer(acc, raw.answer) ELSE acc
         IN  [accumulatedAnswer |-> acc2, conversationId |-> cid2,
              called |-> IF more THEN ReportChunk(acc2, raw.answer) ELSE <<>>,
              settle |-> IF raw.done /\ ~(more /\ throws)
                         THEN Resolved(FinalConversationId(cid2, req), acc2)
                         ELSE Pending]

onmessage(acc, cid, req, raw, throws) ==
    IF raw.shape = "invalid" THEN NoEffect(acc, cid)      \* JSON.parse throws
    ELSE IF raw.shape = "null" THEN NoEffect(acc, cid)    \* data.error throws
    ELSE IF HasError(raw)
    THEN [accumulatedAnswer |-> acc, conversationId |-> cid, called |-> <<>>,
          settle |-> Rejected(raw.error)]
    ELSE LET cid2 == IF Truthy(raw.conversationId) THEN raw.conversationId ELSE cid
             acc2 == IF Truthy(raw.answer) THEN AppendAnswer(acc, raw.answer) ELSE acc
             called == IF Truthy(raw.answer) THEN ReportChunk(acc2, raw.answer) ELSE <<>>
             thrown == Truthy(raw.answer) /\ throws
         IN  [accumulatedAnswer |-> acc2, conversationId |-> cid2, called |-> called,
              settle |-> IF raw.done /\ ~thrown
                         THEN Resolved(FinalConversationId(cid2, req), acc2)
                         ELSE Pending]

\* resolve(...) or reject(...) of the promise of sendMessageWithStreaming: only
\* the first call settles it
SettleStream(outcome) ==
    /\ streamPromise' = IF streamPromise.kind = "pending" THEN outcome ELSE streamPromise
    /\ streamSettles' = streamSettles + 1

\* the continuation of `await this.sendMessageWithStreaming(...)' is a
\* microtask: it runs before any other handler
ResumePending == pc = "streaming" /\ streamPromise.kind # "pending"

\* variant: streaming is tried whether or not onChunk is given
UseStreamingAlways(cb) == TRUE

\* if (onChunk)
UseStreaming(cb) == cb

\* variant: one time budget shared with the streaming attempt
FetchDeadlineShared(t, timer) ==
    IF timer.deadline > 0 THEN timer.deadline ELSE t + Timeout

\* setTimeout(() => controller.abort(), this.timeout) at time t
FetchDeadline(t, timer) == t + Timeout

\* sendMessageNonStreaming up to `await fetch(...)'
StartNonStreaming ==
    /\ posts' = Append(posts, PostBody(request))
    /\ fetchTimer' = [pending |-> TRUE, deadline |-> FetchDeadline(now, streamTimer),
                      armedAt |-> now]
    /\ pc' = "fetching"

\* sendMessage up to its first await.  With onChunk the executor of the
\* promise of sendMessageWithStreaming runs: new EventSource (which may throw,
\* rejecting the promise before the timer is set), setTimeout, the handlers.
SendMessage ==
    /\ pc = "idle"
    /\ IF UseStreaming(onChunk)
       THEN /\ pc' = "streaming"
            /\ \E ctorThrows \in BOOLEAN :
                 IF ctorThrows
                 THEN /\ SettleStream(Rejected("SyntaxError"))
                      /\ UNCHANGED <<eventSource, streamUrl, streamTimer, connections>>
                 ELSE /\ eventSource' = "open"
                      /\ streamUrl' = StreamQuery(request)
                      /\ connections' = connections + 1
                      /\ streamTimer' = [pending |-> TRUE, deadline |-> now + Timeout,
                                         armedAt |-> now]
                      /\ UNCHANGED <<streamPromise, streamSettles>>
            /\ UNCHANGED <<posts, fetchTimer>>
       ELSE /\ StartNonStreaming
            /\ UNCHANGED <<eventSource, streamUrl, streamTimer, connections,
                           streamPromise, streamSettles>>
    /\ UNCHANGED <<request, onChunk, now, accumulatedAnswer, conversationId,
                   httpStatus, httpBody, nonStreamingPromise, events, chunks, result, returns>>
    /\ UNCHANGED <<pairVars, chatVars, twinVars>>

\* variant: a handler that restarts the timer on every event
OnMessageRearms ==
    /\ eventSource = "open"
    /\ ~ResumePending
    /\ Len(events) < MaxEvents
    /\ \E raw \in SSEEvents, throws \in BOOLEAN :
         LET r == onmessage(accumulatedAnswer, conversationId, request, raw, throws)
             c == cleanup(eventSource, streamTimer, TRUE)
         IN  /\ events' = Append(events, raw)
             /\ accumulatedAnswer' = r.accumulatedAnswer
             /\ conversationId' = r.conversationId
             /\ chunks' = chunks \o r.called
             /\ IF r.settle.kind # "pending"
                THEN /\ eventSource' = c.eventSource
                     /\ streamTimer' = c.timer
                     /\ SettleStream(r.settle)
                ELSE /\ streamTimer' = [pending |-> TRUE, deadline |-> now + Timeout,
                                        armedAt |-> now]
                     /\ UNCHANGED <<eventSource, streamPromise, streamSettles>>
    /\ UNCHANGED <<pc, request, onChunk, now, streamUrl, fetchTimer, httpStatus, httpBody,
                   nonStreamingPromise, posts, connections, result, returns>>
    /\ UNCHANGED <<pairVars, chatVars, twinVars>>

\* eventSource.onmessage: the browser dispatches no message on a closed source
OnMessage ==
    /\ eventSource = "open"
    /\ ~ResumePending
    /\ Len(events) < MaxEvents
    /\ \E raw \in SSEEvents, throws \in BOOLEAN :
         LET r == onmessage(accumulatedAnswer, conversationId, request, raw, throws)
             c == cleanup(eventSource, streamTimer, TRUE)
         IN  /\ events' = Append(events, raw)
             /\ accumulatedAnswer' = r.accumulatedAnswer
             /\ conversationId' = r.conversationId
             /\ chunks' = chunks \o r.called
             /\ IF r.settle.kind # "pending"
                THEN /\ eventSource' = c.eventSource
                     /\ streamTimer' = c.timer
                     /\ SettleStream(r.settle)
                ELSE UNCHANGED <<eventSource, streamTimer, streamPromise, streamSettles>>
    /\ UNCHANGED <<pc, request, onChunk, now, streamUrl, fetchTimer, httpStatus, httpBody,
                   nonStreamingPromise, posts, connections, result, returns>>
    /\ UNCHANGED <<pairVars, chatVars, twinVars>>

\* eventSource.onerror
\* variant: a connection error that rejects and leaves the connection open
OnErrorLeavesOpen ==
    /\ eventSource = "open"
    /\ ~ResumePending
    /\ SettleStream(Rejected("SSE connection error"))
    /\ UNCHANGED <<pc, request, onChunk, now, eventSource, streamUrl, accumulatedAnswer,
                   conversationId, streamTimer, fetchTimer, httpStatus, httpBody,
                   nonStreamingPromise, posts, connections, events, chunks, result,
                   returns>>
    /\ UNCHANGED <<pairVars, chatVars, twinVars>>

OnError ==
    /\ eventSource = "open"
    /\ ~ResumePending
    /\ LET c == cleanup(eventSource, streamTimer, TRUE)
       IN  /\ eventSource' = c.eventSource
           /\ streamTimer' = c.timer
    /\ SettleStream(Rejected("SSE connection error"))
    /\ UNCHANGED <<pc, request, onChunk, now, streamUrl, accumulatedAnswer,
                   conversationId, fetchTimer, httpStatus, httpBody, nonStreamingPromise, posts,
                   connections, events, chunks, result, returns>>
    /\ UNCHANGED <<pairVars, chatVars, twinVars>>

\* variant: a timer callback that cleans up and forgets to reject
StreamTimeoutSilent ==
    /\ streamTimer.pending
    /\ now >= streamTimer.deadline
    /\ ~ResumePending
    /\ LET c == cleanup(eventSource, [streamTimer EXCEPT !.pending = FALSE], FALSE)
       IN  /\ eventSource' = c.eventSource
           /\ streamTimer' = c.timer
    /\ UNCHANGED <<pc, request, onChunk, now, streamUrl, accumulatedAnswer,
                   conversationId, streamPromise, streamSettles, fetchTimer,
                   httpStatus, httpBody, nonStreamingPromise, posts, connections, events, chunks,
                   result, returns>>
    /\ UNCHANGED <<pairVars, chatVars, twinVars>>

\* the callback of setTimeout in sendMessageWithStreaming: cleanup(undefined),
\* reject(new Error('Request timeout'))
StreamTimeout ==
    /\ streamTimer.pending
    /\ now >= streamTimer.deadline
    /\ ~ResumePending
    /\ LET c == cleanup(eventSource, [streamTimer EXCEPT !.pending = FALSE], FALSE)
       IN  /\ eventSource' = c.eventSource
           /\ streamTimer' = c.timer
    /\ SettleStream(Rejected("Request timeout"))
    /\ UNCHANGED <<pc, request, onChunk, now, streamUrl, accumulatedAnswer,
                   conversationId, fetchTimer, httpStatus, httpBody, nonStreamingPromise, posts,
                   connections, events, chunks, result, returns>>
    /\ UNCHANGED <<pairVars, chatVars, twinVars>>

\* variant: the response of the stream is delivered without leaving sendMessage
ReturnStreamedFallsThrough ==
    /\ pc = "streaming"
    /\ streamPromise.kind = "resolved"
    /\ StartNonStreaming
    /\ result' = streamPromise
    /\ returns' = returns + 1
    /\ UNCHANGED <<request, onChunk, now, eventSource, streamUrl, accumulatedAnswer,
                   conversationId, streamTimer, streamPromise, streamSettles,
                   httpStatus, httpBody, nonStreamingPromise, connections, events, chunks>>
    /\ UNCHANGED <<pairVars, chatVars, twinVars>>

\* sendMessage after the await, stream resolved: return response
ReturnStreamed ==
    /\ pc = "streaming"
    /\ streamPromise.kind = "resolved"
    /\ pc' = "settled"
    /\ result' = streamPromise
    /\ returns' = returns + 1
    /\ UNCHANGED <<request, onChunk, now, eventSource, streamUrl, accumulatedAnswer,
                   conversationId, streamTimer, streamPromise, streamSettles,
                   fetchTimer, httpStatus, httpBody, nonStreamingPromise, posts, connections,
                   events, chunks>>
    /\ UNCHANGED <<pairVars, chatVars, twinVars>>

\* variant: a catch block that rethrows the streaming error
FallBackRethrows ==
    /\ pc = "streaming"
    /\ streamPromise.kind = "rejected"
    /\ pc' = "settled"
    /\ result' = streamPromise
    /\ returns' = returns + 1
    /\ UNCHANGED <<request, onChunk, now, eventSource, streamUrl, accumulatedAnswer,
                   conversationId, streamTimer, streamPromise, streamSettles,
                   fetchTimer, httpStatus, httpBody, nonStreamingPromise, posts, connections,
                   events, chunks>>
    /\ UNCHANGED <<pairVars, chatVars, twinVars>>

\* sendMessage after the await, stream rejected: the catch block logs the
\* error and control falls through to sendMessageNonStreaming
FallBack ==
    /\ pc = "streaming"
    /\ streamPromise.kind = "rejected"
    /\ StartNonStreaming
    /\ UNCHANGED <<request, onChunk, now, eventSource, streamUrl, accumulatedAnswer,
                   conversationId, streamTimer, streamPromise, streamSettles,
                   httpStatus, httpBody, nonStreamingPromise, connections, events, chunks,
                   result, returns>>
    /\ UNCHANGED <<pairVars, chatVars, twinVars>>

(***************************************************************************)
(* sendMessageNonStreaming                                                 *)
(***************************************************************************)
HttpStatuses == {"200", "404", "500"}

\* response.ok
ResponseOk(status) == status = "200"

\* variant: a catch block that reports every failure as a timeout
catchNonStreamingAllTimeout(error) == Err("Error", "Request timeout")

\* the catch block of sendMessageNonStreaming: an AbortError becomes
\* Error('Request timeout'), any other Error is rethrown as it is
catchNonStreaming(error) ==
    IF error.name = "AbortError" THEN Err("Error", "Request timeout") ELSE error

\* new Error(`HTTP ${response.status}: ${errorText}`)
HttpError(status, errorText) == Err("Error", "HTTP " \o status \o ": " \o errorText)

\* sendMessageNonStreaming settles, and with it sendMessage, whose own code
\* only awaits it and returns its response
SettleNonStreaming(outcome) ==
    /\ nonStreamingPromise' = outcome
    /\ pc' = "settled"
    /\ result' = outcome
    /\ returns' = returns + 1

\* clearTimeout(timeoutId) of sendMessageNonStreaming
clearFetchTimer == fetchTimer' = [fetchTimer EXCEPT !.pending = FALSE]

\* await fetch(...) resolves with the response head: clearTimeout, then
\* response.text() or response.json() is awaited
FetchResponds ==
    /\ pc = "fetching"
    /\ \E status \in HttpStatuses :
         /\ httpStatus' = status
         /\ pc' = IF ResponseOk(status) THEN "readingJson" ELSE "readingText"
    /\ clearFetchTimer
    /\ UNCHANGED <<request, onChunk, now, eventSource, streamUrl, accumulatedAnswer,
                   conversationId, streamTimer, streamPromise, streamSettles,
                   httpBody, nonStreamingPromise, posts, connections, events, chunks,
                   result, returns>>
    /\ UNCHANGED <<pairVars, chatVars, twinVars>>

\* await fetch(...) rejects with a network error
FetchFails ==
    /\ pc = "fetching"
    /\ clearFetchTimer
    /\ SettleNonStreaming(
           Rejected(catchNonStreaming(Err("TypeError", "Failed to fetch")).message))
    /\ UNCHANGED <<request, onChunk, now, eventSource, streamUrl, accumulatedAnswer,
                   conversationId, streamTimer, streamPromise, streamSettles,
                   httpStatus, httpBody, posts, connections, events, chunks>>
    /\ UNCHANGED <<pairVars, chatVars, twinVars>>

\* the callback of setTimeout in sendMessageNonStreaming: controller.abort(),
\* on which the pending fetch rejects with an AbortError
FetchTimeout ==
    /\ pc = "fetching"
    /\ fetchTimer.pending
    /\ now >= fetchTimer.deadline
    /\ clearFetchTimer
    /\ SettleNonStreaming(
           Rejected(catchNonStreaming(Err("AbortError", "The operation was aborted")).message))
    /\ UNCHANGED <<request, onChunk, now, eventSource, streamUrl, accumulatedAnswer,
                   conversationId, streamTimer, streamPromise, streamSettles,
                   httpStatus, httpBody, posts, connections, events, chunks>>
    /\ UNCHANGED <<pairVars, chatVars, twinVars>>

\* await response.json() resolves: return data
JsonResolves ==
    /\ pc = "readingJson"
    /\ \E data \in ServerResponses : SettleNonStreaming(data)
    /\ UNCHANGED <<request, onChunk, now, eventSource, streamUrl, accumulatedAnswer,
                   conversationId, streamTimer, streamPromise, streamSettles,
                   fetchTimer, httpStatus, httpBody, posts, connections, events, chunks>>
    /\ UNCHANGED <<pairVars, chatVars, twinVars>>

\* await response.json() rejects: the body is no JSON, or the connection broke
JsonFails ==
    /\ pc = "readingJson"
    /\ SettleNonStreaming(
           Rejected(catchNonStreaming(Err("SyntaxError", "Unexpected token")).message))
    /\ UNCHANGED <<request, onChunk, now, eventSource, streamUrl, accumulatedAnswer,
                   conversationId, streamTimer, streamPromise, streamSettles,
                   fetchTimer, httpStatus, httpBody, posts, connections, events, chunks>>
    /\ UNCHANGED <<pairVars, chatVars, twinVars>>

\* a response body that cannot be read: response.text() rejects
Unreadable == "<unreadable>"

\* bodies the server may send with a non-success status
ErrorBodies == {"server error", "", Unreadable}

\* await response.text().catch(() => 'Unknown error')
ErrorText(body) == IF body = Unreadable THEN "Unknown error" ELSE body

\* await response.text().catch(...) settles; the HTTP error is thrown and
\* passes the catch block
TextResolves ==
    /\ pc = "readingText"
    /\ \E body \in ErrorBodies :
         /\ httpBody' = body
         /\ SettleNonStreaming(
                Rejected(catchNonStreaming(HttpError(httpStatus, ErrorText(body))).message))
    /\ UNCHANGED <<request, onChunk, now, eventSource, streamUrl, accumulatedAnswer,
                   conversationId, streamTimer, streamPromise, streamSettles,
                   fetchTimer, httpStatus, posts, connections, events, chunks>>
    /\ UNCHANGED <<pairVars, chatVars, twinVars>>

(***************************************************************************)
(* Time                                                                    *)
(***************************************************************************)
\* One tick passes.  A pending timer fires at its deadline: the clock does not
\* pass the deadline of a timer that is still pending.
Tick ==
    /\ pc \in {"streaming", "fetching", "readingJson", "readingText"}
    /\ now < MaxTime
    /\ streamTimer.pending => now < streamTimer.deadline
    /\ fetchTimer.pending => now < fetchTimer.deadline
    /\ pc \in {"readingJson", "readingText"} => now < fetchTimer.deadline + 1
    /\ now' = now + 1
    /\ UNCHANGED <<pc, request, onChunk, eventSource, streamUrl, accumulatedAnswer,
                   conversationId, streamTimer, streamPromise, streamSettles,
                   fetchTimer, httpStatus, httpBody, nonStreamingPromise, posts, connections,
                   events, chunks, result, returns>>
    /\ UNCHANGED <<pairVars, chatVars, twinVars>>

(***************************************************************************)
(* Two overlapping invocations of sendMessage on the one exported client.  *)
(* `calls' is what each invocation was given, has observed and has         *)
(* returned; `cells' holds the bindings its private methods create:        *)
(* eventSource, accumulatedAnswer, conversationId and the two timeoutIds.  *)
(* The client object itself only holds baseUrl, apiPath and timeout.       *)
(***************************************************************************)
\* variant: the bindings are fields of the client object, one set for all
\* invocations
ScopeShared(i) == CHOOSE s \in Calls : \A t \in Calls : s <= t

\* the bindings of invocation i: each call of sendMessageWithStreaming and of
\* sendMessageNonStreaming creates its own
Scope(i) == i

Cell(i) == cells[Scope(i)]

\* sendMessage(request, onChunk) of invocation i, up to the first await: the
\* EventSource is constructed, the two locals are initialised, the timer is set
PairSend(i) ==
    /\ calls[i].pc = "idle"
    /\ \A j \in Calls : j < i => calls[j].pc # "idle"
    /\ \E req \in PairRequests :
         calls' = [calls EXCEPT ![i] =
                      [@ EXCEPT !.pc = "streaming", !.request = req,
                                !.startedAt = pairNow]]
    /\ cells' = [cells EXCEPT ![Scope(i)] =
                    [eventSource |-> "open", accumulatedAnswer |-> "",
                     conversationId |-> "",
                     timer |-> [pending |-> TRUE, deadline |-> pairNow + Timeout,
                                armedAt |-> pairNow],
                     fetchTimer |-> NoTimer]]
    /\ UNCHANGED <<pairNow, clientVars, chatVars, twinVars>>

\* the stream promise of an invocation settles and its sendMessage resumes: it
\* returns the response, or it calls sendMessageNonStreaming, which issues the
\* POST
PairSettled(c, outcome) ==
    IF outcome.kind = "resolved"
    THEN [c EXCEPT !.pc = "settled", !.streamPromise = outcome, !.result = outcome]
    ELSE [c EXCEPT !.pc = "fetching", !.streamPromise = outcome,
                   !.posts = Append(@, PostBody(c.request))]

\* ... and arms the timer of the POST
PairArmed(cell, outcome, t) ==
    IF outcome.kind = "rejected"
    THEN [cell EXCEPT !.fetchTimer = [pending |-> TRUE,
                                      deadline |-> FetchDeadline(t, cell.timer),
                                      armedAt |-> t]]
    ELSE cell

\* eventSource.onmessage of invocation i
PairOnMessage(i) ==
    /\ calls[i].pc = "streaming"
    /\ Cell(i).eventSource = "open"
    /\ Len(calls[i].events) < MaxPairEvents
    /\ \E raw \in PairEvents :
         LET r == onmessage(Cell(i).accumulatedAnswer, Cell(i).conversationId,
                            calls[i].request, raw, FALSE)
             c == cleanup(Cell(i).eventSource, Cell(i).timer, TRUE)
             heard == [calls[i] EXCEPT !.events = Append(@, raw),
                                       !.chunks = @ \o r.called]
             kept == [Cell(i) EXCEPT !.accumulatedAnswer = r.accumulatedAnswer,
                                     !.conversationId = r.conversationId]
         IN  IF r.settle.kind = "pending"
             THEN /\ calls' = [calls EXCEPT ![i] = heard]
                  /\ cells' = [cells EXCEPT ![Scope(i)] = kept]
             ELSE /\ calls' = [calls EXCEPT ![i] = PairSettled(heard, r.settle)]
                  /\ cells' = [cells EXCEPT ![Scope(i)] =
                                  PairArmed([kept EXCEPT !.eventSource = c.eventSource,
                                                         !.timer = c.timer],
                                            r.settle, pairNow)]
    /\ UNCHANGED <<pairNow, clientVars, chatVars, twinVars>>

\* eventSource.onerror of invocation i
PairOnError(i) ==
    /\ calls[i].pc = "streaming"
    /\ Cell(i).eventSource = "open"
    /\ LET c == cleanup(Cell(i).eventSource, Cell(i).timer, TRUE)
           outcome == Rejected("SSE connection error")
       IN  /\ calls' = [calls EXCEPT ![i] = PairSettled(@, outcome)]
           /\ cells' = [cells EXCEPT ![Scope(i)] =
                           PairArmed([Cell(i) EXCEPT !.eventSource = c.eventSource,
                                                     !.timer = c.timer],
                                     outcome, pairNow)]
    /\ UNCHANGED <<pairNow, clientVars, chatVars, twinVars>>

\* the callback of the setTimeout of sendMessageWithStreaming of invocation i
PairStreamTimeout(i) ==
    /\ calls[i].pc = "streaming"
    /\ Cell(i).timer.pending
    /\ pairNow >= Cell(i).timer.deadline
    /\ LET c == cleanup(Cell(i).eventSource,
                        [Cell(i).timer EXCEPT !.pending = FALSE], FALSE)
           outcome == Rejected("Request timeout")
       IN  /\ calls' = [calls EXCEPT ![i] = PairSettled(@, outcome)]
           /\ cells' = [cells EXCEPT ![Scope(i)] =
                           PairArmed([Cell(i) EXCEPT !.eventSource = c.eventSource,
                                                     !.timer = c.timer],
                                     outcome, pairNow)]
    /\ UNCHANGED <<pairNow, clientVars, chatVars, twinVars>>

\* the POST of invocation i is answered or fails: clearTimeout, and the
\* response, or the error, is the outcome of its sendMessage
PairFetchSettles(i) ==
    /\ calls[i].pc = "fetching"
    /\ \E outcome \in PairOutcomes :
         calls' = [calls EXCEPT ![i] = [@ EXCEPT !.pc = "settled", !.result = outcome]]
    /\ cells' = [cells EXCEPT ![Scope(i)] = [@ EXCEPT !.fetchTimer.pending = FALSE]]
    /\ UNCHANGED <<pairNow, clientVars, chatVars, twinVars>>

\* the callback of the setTimeout of sendMessageNonStreaming of invocation i
PairFetchTimeout(i) ==
    /\ calls[i].pc = "fetching"
    /\ Cell(i).fetchTimer.pending
    /\ pairNow >= Cell(i).fetchTimer.deadline
    /\ calls' = [calls EXCEPT ![i] =
                    [@ EXCEPT !.pc = "settled",
                              !.result = Rejected(catchNonStreaming(
                                  Err("AbortError", "The operation was aborted")).message)]]
    /\ cells' = [cells EXCEPT ![Scope(i)] = [@ EXCEPT !.fetchTimer.pending = FALSE]]
    /\ UNCHANGED <<pairNow, clientVars, chatVars, twinVars>>

\* one tick passes while an invocation is in progress; a pending timer fires
\* at its deadline
PairTick ==
    /\ \E i \in Calls : calls[i].pc \in {"streaming", "fetching"}
    /\ pairNow < MaxPairTime
    /\ \A s \in Calls :
         /\ cells[s].timer.pending => pairNow < cells[s].timer.deadline
         /\ cells[s].fetchTimer.pending => pairNow < cells[s].fetchTimer.deadline
    /\ pairNow' = pairNow + 1
    /\ UNCHANGED <<calls, cells, clientVars, chatVars, twinVars>>

(***************************************************************************)
(* The Chat component and its ChatInput.  A handler of a user event runs   *)
(* together with the render React performs before the next event; the      *)
(* effects a render schedules run in a later step, in order.  A handler    *)
(* reads `conversation' as the render that created it saw it; an update    *)
(* given as a function is applied to the latest state.  What sendMessage   *)
(* does between call and outcome is the client above.                      *)
(***************************************************************************)
\* the sends whose sendMessage promise is still pending
InFlight == { k \in 1..Len(sends) : sends[k].outcome = "pending" }

\* nothing is scheduled: the last render is on screen and its effects ran
ChatIdle == mounted /\ effects = <<>> /\ updates = <<>>

\* history: conversation.messages.map(({ role, content }) => ({ role, content }))
HistoryOf(messages) ==
    [k \in 1..Len(messages) |-> Turn(messages[k].role, messages[k].content)]

\* messages.slice(0, -1)
DropLast(messages) == SubSeq(messages, 1, Len(messages) - 1)

\* [...messages].reverse().find((msg) => msg.role === 'user')
HasUserMessage(messages) == \E k \in 1..Len(messages) : messages[k].role = "user"

LastUserMessage(messages) ==
    messages[CHOOSE k \in 1..Len(messages) :
                /\ messages[k].role = "user"
                /\ \A l \in (k + 1)..Len(messages) : messages[l].role # "user"]

\* String.prototype.trim on the texts a user types
Trim(text) ==
    CASE text = " yo " -> "yo"
      [] text = " " -> ""
      [] OTHER -> text

\* createRoot(...).render(<StrictMode><App /></StrictMode>): the first render
\* of Chat.  It schedules the load effect and the save effect; a development
\* build runs the effects of a newly mounted component a second time.
Mount ==
    /\ ~mounted
    /\ mounted' = TRUE
    /\ \E development \in BOOLEAN :
         effects' = IF development THEN <<"load", "save", "load", "save">>
                                   ELSE <<"load", "save">>
    /\ UNCHANGED <<conversation, isTyping, chatError, inputMessage, storage, updates, sends,
                   storedAtMount, userActed, clientVars, pairVars, twinVars>>

\* the load effect: setConversation(parsed) is queued when an item is stored
LoadEffect(st) ==
    IF st.storage # NoItem
    THEN [st EXCEPT !.updates = Append(@, ParseConversation(st.storage))]
    ELSE st

\* the save effect, with the conversation its render saw
SaveEffect(st, seen) == [st EXCEPT !.storage = StringifyConversation(seen)]

\* the scheduled effects, run in order
RECURSIVE RunEffects(_, _, _)
RunEffects(effs, st, seen) ==
    IF effs = <<>> THEN st
    ELSE RunEffects(Tail(effs),
                    IF Head(effs) = "load" THEN LoadEffect(st) ELSE SaveEffect(st, seen),
                    seen)

FlushEffects ==
    /\ mounted
    /\ effects # <<>>
    /\ LET st == RunEffects(effects, [storage |-> storage, updates |-> updates],
                            conversation)
       IN  /\ storage' = st.storage
           /\ updates' = st.updates
    /\ effects' = <<>>
    /\ UNCHANGED <<mounted, conversation, isTyping, chatError, inputMessage, sends,
                   storedAtMount, userActed, clientVars, pairVars, twinVars>>

\* the render after setConversation was called from an effect: the queued
\* values are applied in order, and the save effect is scheduled for the new
\* conversation
Render ==
    /\ mounted
    /\ effects = <<>>
    /\ updates # <<>>
    /\ conversation' = updates[Len(updates)]
    /\ updates' = <<>>
    /\ effects' = <<"save">>
    /\ UNCHANGED <<mounted, isTyping, chatError, inputMessage, storage, sends, storedAtMount,
                   userActed, clientVars, pairVars, twinVars>>

\* variant: an input that stays enabled while a send is pending
InputNeverDisabled == FALSE

\* <ChatInput onSend={handleSendMessage} disabled={isTyping} />
InputDisabled == isTyping

\* onChange of the textarea: setMessage(e.target.value)
TypeText ==
    /\ ChatIdle
    /\ ~InputDisabled
    /\ \E text \in InputTexts : inputMessage' = text
    /\ userActed' = TRUE
    /\ UNCHANGED <<mounted, conversation, isTyping, chatError, storage, effects, updates,
                   sends, storedAtMount, clientVars, pairVars, twinVars>>

\* variant: a handler that builds the request from the state its own update
\* produces
handleSendMessageFromLatest(seen, latest, messageText, via) ==
    /\ chatError' = Absent
    /\ conversation' =
          [latest EXCEPT !.messages = Append(@, Message("user", messageText, NewDate))]
    /\ isTyping' = TRUE
    /\ sends' = Append(sends,
                       [request |-> ChatRequest(latest.conversationId, messageText,
                                                HistoryOf(conversation'.messages)),
                        via |-> via, outcome |-> "pending", settled |-> Pending])
    /\ effects' = <<"save">>

\* handleSendMessage(messageText), up to `await agentClient.sendMessage(...)':
\* `seen' is the conversation of the render the handler belongs to, `latest'
\* the state the queued updates apply to
handleSendMessage(seen, latest, messageText, via) ==
    /\ chatError' = Absent
    /\ conversation' =
          [latest EXCEPT !.messages = Append(@, Message("user", messageText, NewDate))]
    /\ isTyping' = TRUE
    /\ sends' = Append(sends,
                       [request |-> ChatRequest(seen.conversationId, messageText,
                                                HistoryOf(seen.messages)),
                        via |-> via, outcome |-> "pending", settled |-> Pending])
    /\ effects' = <<"save">>

\* handleSend of ChatInput
handleSend ==
    IF Truthy(Trim(inputMessage)) /\ ~InputDisabled
    THEN /\ handleSendMessage(conversation, conversation, Trim(inputMessage), "input")
         /\ inputMessage' = ""
    ELSE UNCHANGED <<conversation, isTyping, chatError, inputMessage, effects, sends>>

\* onClick of the Send button, which is disabled={!message.trim() || disabled}
ClickSend ==
    /\ ChatIdle
    /\ Len(sends) < MaxSends
    /\ ~(~Truthy(Trim(inputMessage)) \/ InputDisabled)
    /\ handleSend
    /\ userActed' = TRUE
    /\ UNCHANGED <<mounted, storage, updates, storedAtMount, clientVars, pairVars, twinVars>>

\* handleKeyPress of the textarea with Enter and without Shift
PressEnter ==
    /\ ChatIdle
    /\ Len(sends) < MaxSends
    /\ ~InputDisabled
    /\ handleSend
    /\ userActed' = TRUE
    /\ UNCHANGED <<mounted, storage, updates, storedAtMount, clientVars, pairVars, twinVars>>

\* handleRetry, the onClick of Try Again, which is rendered when error is set
ClickTryAgain ==
    /\ ChatIdle
    /\ Len(sends) < MaxSends
    /\ Truthy(chatError)
    /\ IF HasUserMessage(conversation.messages)
       THEN handleSendMessage(conversation,
                              [conversation EXCEPT !.messages = DropLast(@)],
                              LastUserMessage(conversation.messages).content, "retry")
       ELSE /\ chatError' = Absent
            /\ UNCHANGED <<conversation, isTyping, effects, sends>>
    /\ userActed' = TRUE
    /\ UNCHANGED <<mounted, inputMessage, storage, updates, storedAtMount, clientVars,
                   pairVars, twinVars>>

\* handleClearChat, the onClick of Clear Chat, which is rendered when the
\* conversation has messages; window.confirm may be declined
ClickClear ==
    /\ ChatIdle
    /\ Len(conversation.messages) > 0
    /\ \E confirmed \in BOOLEAN :
         IF confirmed
         THEN /\ conversation' = EmptyConversation
              /\ storage' = NoItem
              /\ effects' = <<"save">>
         ELSE UNCHANGED <<conversation, storage, effects>>
    /\ userActed' = TRUE
    /\ UNCHANGED <<mounted, isTyping, chatError, inputMessage, updates, sends, storedAtMount,
                   clientVars, pairVars, twinVars>>

\* the continuation of `await agentClient.sendMessage(...)' with a response
SendResolves ==
    /\ ChatIdle
    /\ \E k \in InFlight, response \in ChatResponses :
         /\ conversation' =
               [conversationId |-> response.conversationId,
                messages |-> Append(conversation.messages,
                                    Message("assistant", response.answer, NewDate))]
         /\ sends' = [sends EXCEPT ![k].outcome = "resolved", ![k].settled = response]
    /\ isTyping' = FALSE
    /\ effects' = <<"save">>
    /\ UNCHANGED <<mounted, chatError, inputMessage, storage, updates, storedAtMount, userActed,
                   clientVars, pairVars, twinVars>>

\* the catch block of handleSendMessage
SendRejects ==
    /\ ChatIdle
    /\ \E k \in InFlight, failure \in ChatFailures :
         /\ chatError' = failure.error
         /\ sends' = [sends EXCEPT ![k].outcome = "rejected", ![k].settled = failure]
    /\ isTyping' = FALSE
    /\ UNCHANGED <<mounted, conversation, inputMessage, storage, effects, updates,
                   storedAtMount, userActed, clientVars, pairVars, twinVars>>

(***************************************************************************)
(* The client without telemetry and the client with telemetry, given the   *)
(* same request and the same behaviour of the environment.  Each operator  *)
(* below is one piece of code of a client v in state c with span sp; it    *)
(* gives the client and the span after it has run to its next await.       *)
(***************************************************************************)
Out(c, sp) == [client |-> c, span |-> sp]

\* span.setStatus({code})
setStatus(sp, code) ==
    IF sp.okIsFinal /\ sp.status = "OK" THEN sp ELSE [sp EXCEPT !.status = code]

\* sendMessage throws: in the instrumented client the outer catch sets the
\* status, records the exception and rethrows, and finally ends the span
Throw(v, c, sp, message) ==
    Out([c EXCEPT !.pc = "settled", !.result = Rejected(message)],
        IF v = "traced"
        THEN [setStatus(sp, "ERROR") EXCEPT !.exceptions = @ + 1, !.ended = @ + 1]
        ELSE sp)

\* sendMessage has a response: the plain client returns it; the instrumented
\* client sets the status, reads response.answer.length for the attribute,
\* which throws a TypeError when the response has no answer, and returns
Return(v, c, sp, response) ==
    IF v = "traced"
    THEN IF response.answer = Absent
         THEN Throw(v, c, setStatus(sp, "OK"),
                    "Cannot read properties of undefined (reading 'length')")
         ELSE Out([c EXCEPT !.pc = "settled", !.result = response],
                  [setStatus(sp, "OK") EXCEPT !.ended = @ + 1])
    ELSE Out([c EXCEPT !.pc = "settled", !.result = response], sp)

\* sendMessageNonStreaming up to `await fetch(...)'
TwinStartNonStreaming(c) ==
    [c EXCEPT !.pc = "fetching", !.posts = Append(@, PostBody(c.request)),
              !.fetchTimer = TRUE]

\* the catch block around the streaming attempt, and the fallback
StartFallback(v, c, sp, reason) ==
    Out(TwinStartNonStreaming(c),
        IF v = "traced"
        THEN [sp EXCEPT !.events = Append(@, [name |-> "streaming_fallback",
                                              reason |-> reason])]
        ELSE sp)

\* the continuation of `await this.sendMessageWithStreaming(...)'
StreamSettled(v, c, sp, outcome) ==
    IF outcome.kind = "resolved" THEN Return(v, c, sp, outcome)
    ELSE StartFallback(v, c, sp, outcome.error)

\* cleanup() of the plain client: eventSource.close(); if (timeoutId)
\* clearTimeout(timeoutId)
cleanupPlain(es, timer) ==
    [eventSource |-> "closed",
     timer |-> IF Truthy(timer.id) THEN [timer EXCEPT !.pending = FALSE] ELSE timer]

Cleanup(v, c, timerId) ==
    LET done == IF v = "traced" THEN cleanup(c.eventSource, c.timer, timerId)
                ELSE cleanupPlain(c.eventSource, c.timer)
    IN  [c EXCEPT !.eventSource = done.eventSource, !.timer = done.timer]

\* sendMessage(request, onChunk) up to its first await
sendMessage(v, c, sp, req, cb, ctorThrows, okIsFinal) ==
    LET sp1 == IF v = "traced"
               THEN [sp EXCEPT !.started = @ + 1, !.okIsFinal = okIsFinal] ELSE sp
        c1 == [c EXCEPT !.request = req, !.onChunk = cb]
    IN  IF c.pc # "idle" THEN Out(c, sp)
        ELSE IF ~cb THEN Out(TwinStartNonStreaming(c1), sp1)
        ELSE IF ctorThrows THEN StartFallback(v, c1, sp1, "SyntaxError")
        ELSE Out([c1 EXCEPT !.pc = "streaming", !.eventSource = "open",
                            !.connections = Append(@, StreamQuery(req)),
                            !.timer = [pending |-> TRUE, id |-> "timeoutId"]],
                 sp1)

\* eventSource.onmessage
eventSourceOnMessage(v, c, sp, raw, throws) ==
    LET r == onmessage(c.accumulatedAnswer, c.conversationId, c.request, raw, throws)
        c1 == [c EXCEPT !.accumulatedAnswer = r.accumulatedAnswer,
                        !.conversationId = r.conversationId,
                        !.chunks = @ \o r.called, !.received = @ + 1]
    IN  IF c.eventSource # "open" THEN Out(c, sp)
        ELSE IF r.settle.kind = "pending" THEN Out(c1, sp)
        ELSE StreamSettled(v, Cleanup(v, c1, TRUE), sp, r.settle)

\* eventSource.onerror
eventSourceOnError(v, c, sp) ==
    IF c.eventSource # "open" THEN Out(c, sp)
    ELSE StreamSettled(v, Cleanup(v, c, TRUE), sp, Rejected("SSE connection error"))

\* the callback of setTimeout in sendMessageWithStreaming
streamTimerFires(v, c, sp) ==
    IF ~c.timer.pending THEN Out(c, sp)
    ELSE StreamSettled(v, Cleanup(v, [c EXCEPT !.timer.pending = FALSE], FALSE), sp,
                       Rejected("Request timeout"))

\* await fetch(...) resolves: clearTimeout, then the body is read
fetchResolves(v, c, sp, status) ==
    IF c.pc # "fetching" THEN Out(c, sp)
    ELSE Out([c EXCEPT !.pc = IF ResponseOk(status) THEN "readingJson" ELSE "readingText",
                       !.httpStatus = status, !.fetchTimer = FALSE], sp)

\* await fetch(...) rejects with a network error
fetchRejects(v, c, sp) ==
    IF c.pc # "fetching" THEN Out(c, sp)
    ELSE Throw(v, [c EXCEPT !.fetchTimer = FALSE], sp,
               catchNonStreaming(Err("TypeError", "Failed to fetch")).message)

\* the callback of setTimeout in sendMessageNonStreaming
abortTimerFires(v, c, sp) ==
    IF c.pc # "fetching" \/ ~c.fetchTimer THEN Out(c, sp)
    ELSE Throw(v, [c EXCEPT !.fetchTimer = FALSE], sp,
               catchNonStreaming(Err("AbortError", "The operation was aborted")).message)

\* await response.json() resolves
jsonResolves(v, c, sp, data) ==
    IF c.pc # "readingJson" THEN Out(c, sp) ELSE Return(v, c, sp, data)

\* await response.json() rejects
jsonRejects(v, c, sp) ==
    IF c.pc # "readingJson" THEN Out(c, sp)
    ELSE Throw(v, c, sp, catchNonStreaming(Err("SyntaxError", "Unexpected token")).message)

\* await response.text().catch(...) settles and the HTTP error is thrown
textSettles(v, c, sp, body) ==
    IF c.pc # "readingText" THEN Out(c, sp)
    ELSE Throw(v, c, sp, catchNonStreaming(HttpError(c.httpStatus, ErrorText(body))).message)

\* both clients have taken the same step
TwinStep(plain, traced) ==
    /\ twin' = [v \in Variants |-> IF v = "plain" THEN plain.client ELSE traced.client]
    /\ span' = traced.span
    /\ UNCHANGED <<clientVars, pairVars, chatVars>>

TwinSend ==
    /\ \E v \in Variants : twin[v].pc = "idle"
    /\ \E req \in PairRequests, cb \in BOOLEAN, ctorThrows \in BOOLEAN, okIsFinal \in BOOLEAN :
         TwinStep(sendMessage("plain", twin["plain"], span, req, cb, ctorThrows, okIsFinal),
                  sendMessage("traced", twin["traced"], span, req, cb, ctorThrows, okIsFinal))

TwinOnMessage ==
    /\ \E v \in Variants : twin[v].eventSource = "open"
    /\ \A v \in Variants : twin[v].received < MaxPairEvents
    /\ \E raw \in PairEvents, throws \in BOOLEAN :
         TwinStep(eventSourceOnMessage("plain", twin["plain"], span, raw, throws),
                  eventSourceOnMessage("traced", twin["traced"], span, raw, throws))

TwinOnError ==
    /\ \E v \in Variants : twin[v].eventSource = "open"
    /\ TwinStep(eventSourceOnError("plain", twin["plain"], span),
                eventSourceOnError("traced", twin["traced"], span))

TwinStreamTimeout ==
    /\ \E v \in Variants : twin[v].timer.pending
    /\ TwinStep(streamTimerFires("plain", twin["plain"], span),
                streamTimerFires("traced", twin["traced"], span))

TwinFetchResponds ==
    /\ \E v \in Variants : twin[v].pc = "fetching"
    /\ \E status \in HttpStatuses :
         TwinStep(fetchResolves("plain", twin["plain"], span, status),
                  fetchResolves("traced", twin["traced"], span, status))

TwinFetchFails ==
    /\ \E v \in Variants : twin[v].pc = "fetching"
    /\ TwinStep(fetchRejects("plain", twin["plain"], span),
                fetchRejects("traced", twin["traced"], span))

TwinFetchTimeout ==
    /\ \E v \in Variants : twin[v].pc = "fetching" /\ twin[v].fetchTimer
    /\ TwinStep(abortTimerFires("plain", twin["plain"], span),
                abortTimerFires("traced", twin["traced"], span))

TwinJsonResolves ==
    /\ \E v \in Variants : twin[v].pc = "readingJson"
    /\ \E data \in TwinBodies :
         TwinStep(jsonResolves("plain", twin["plain"], span, data),
                  jsonResolves("traced", twin["traced"], span, data))

TwinJsonFails ==
    /\ \E v \in Variants : twin[v].pc = "readingJson"
    /\ TwinStep(jsonRejects("plain", twin["plain"], span),
                jsonRejects("traced", twin["traced"], span))

TwinTextResolves ==
    /\ \E v \in Variants : twin[v].pc = "readingText"
    /\ \E body \in ErrorBodies :
         TwinStep(textSettles("plain", twin["plain"], span, body),
                  textSettles("traced", twin["traced"], span, body))

(***************************************************************************)
(* Specifications                                                          *)
(***************************************************************************)
\* one invocation of sendMessage; the page holds no Chat and nothing is stored
Init == ClientInit /\ PairInit /\ ChatInit(NoItem) /\ TwinInit

Next ==
    \/ SendMessage
    \/ OnMessage
    \/ OnError
    \/ StreamTimeout
    \/ ReturnStreamed
    \/ FallBack
    \/ FetchResponds
    \/ FetchFails
    \/ FetchTimeout
    \/ JsonResolves
    \/ JsonFails
    \/ TextResolves
    \/ Tick

Spec == Init /\ [][Next]_vars

\* The streaming attempt alone, from the call with a fragment callback to the
\* start of the fallback: the POST is issued and left in flight.  The event
\* loop runs a due timer callback and the continuation of a settled promise,
\* and the clock advances.
StreamInit == Init /\ onChunk

StreamNext ==
    \/ SendMessage
    \/ OnMessage
    \/ OnError
    \/ StreamTimeout
    \/ ReturnStreamed
    \/ FallBack
    \/ Tick

StreamSpec ==
    /\ StreamInit
    /\ [][StreamNext]_vars
    /\ WF_vars(Tick)
    /\ WF_vars(StreamTimeout)
    /\ WF_vars(ReturnStreamed)
    /\ WF_vars(FallBack)

\* a client no invocation of which is modelled by the variables of the first
\* part
ClientIdle == ClientInit /\ onChunk /\ request = ChatRequest(Absent, "hi", <<>>)

\* Two invocations with a fragment callback, the second started after the
\* first, in any interleaving of their handlers.
PairStart == ClientIdle /\ PairInit /\ ChatInit(NoItem) /\ TwinInit

PairNext ==
    \/ \E i \in Calls : PairSend(i)
    \/ \E i \in Calls : PairOnMessage(i)
    \/ \E i \in Calls : PairOnError(i)
    \/ \E i \in Calls : PairStreamTimeout(i)
    \/ \E i \in Calls : PairFetchSettles(i)
    \/ \E i \in Calls : PairFetchTimeout(i)
    \/ PairTick

PairSpec == PairStart /\ [][PairNext]_vars

\* The Chat component from the opening of the page, with whatever an earlier
\* session stored.
ChatStart ==
    ClientIdle /\ PairInit /\ TwinInit /\ \E stored \in StoredItems : ChatInit(stored)

ChatNext ==
    \/ Mount
    \/ FlushEffects
    \/ Render
    \/ TypeText
    \/ ClickSend
    \/ PressEnter
    \/ ClickTryAgain
    \/ ClickClear
    \/ SendResolves
    \/ SendRejects

ChatSpec == ChatStart /\ [][ChatNext]_vars

\* One invocation of sendMessage on each of the two clients, both given the
\* same request, callback and environment.
TwinStart == ClientIdle /\ PairInit /\ ChatInit(NoItem) /\ TwinInit

TwinNext ==
    \/ TwinSend
    \/ TwinOnMessage
    \/ TwinOnError
    \/ TwinStreamTimeout
    \/ TwinFetchResponds
    \/ TwinFetchFails
    \/ TwinFetchTimeout
    \/ TwinJsonResolves
    \/ TwinJsonFails
    \/ TwinTextResolves

TwinSpec == TwinStart /\ [][TwinNext]_vars

(***************************************************************************)
(* What the properties below read off the history of one invocation.       *)
(***************************************************************************)
Front(seq) == SubSeq(seq, 1, Len(seq) - 1)

Last(seq) == seq[Len(seq)]

\* the event carries a non-empty answer fragment
CarriesFragment(e) == e.shape = "object" /\ e.answer # Absent /\ e.answer # ""

\* the event carries a non-empty conversation identifier
CarriesId(e) == e.shape = "object" /\ e.conversationId # Absent /\ e.conversationId # ""

\* the event carries a non-empty error text
CarriesError(e) == e.shape = "object" /\ e.error # Absent /\ e.error # ""

\* the non-empty fragments carried by a sequence of events, in order
RECURSIVE FragmentsOf(_)
FragmentsOf(evs) ==
    IF evs = <<>> THEN <<>>
    ELSE FragmentsOf(Front(evs))
            \o (IF CarriesFragment(Last(evs)) THEN <<Last(evs).answer>> ELSE <<>>)

\* the concatenation of a sequence of texts
RECURSIVE Join(_)
Join(texts) == IF texts = <<>> THEN "" ELSE Join(Front(texts)) \o Last(texts)

\* the last non-empty identifier carried by a sequence of events, or Absent
RECURSIVE LastIdOf(_)
LastIdOf(evs) ==
    IF evs = <<>> THEN Absent
    ELSE IF CarriesId(Last(evs)) THEN Last(evs).conversationId
    ELSE LastIdOf(Front(evs))

\* the request a POST body carries
CarriedRequest(body) ==
    ChatRequest(IF body.hasConversationId THEN body.conversationId ELSE Absent,
                body.message, ParseHistory(body.history))

InFallback == pc \in {"fetching", "readingJson", "readingText"}

StreamFailed == streamPromise.kind = "rejected"

StreamCompleted == streamPromise.kind = "resolved"

C2_AnswerExcludesDoneEvent ==
    StreamCompleted => streamPromise.answer = Join(FragmentsOf(Front(events)))

(***************************************************************************)
(* C2, amended: when the stream completes, the answer is the concatenation *)
(* of the non-empty fragments carried by the events processed up to and    *)
(* including the done-flagged event.                                       *)
(***************************************************************************)
C2_AnswerIsConcatenation ==
    StreamCompleted => streamPromise.answer = Join(FragmentsOf(events))

C2_Witness ==
    /\ StreamCompleted
    /\ Len(events) = 3
    /\ CarriesFragment(events[1])
    /\ CarriesFragment(events[2])
    /\ CarriesFragment(events[3])
    /\ streamPromise.answer = "abb"

(***************************************************************************)
(* C3: after every processed event the calls of the fragment callback are  *)
(* exactly the non-empty fragments of the events processed so far, one     *)
(* call per fragment, in arrival order; when the stream completes their    *)
(* concatenation is the answer of the response.                            *)
(***************************************************************************)
C3_CallbackReportsEachFragment ==
    /\ (eventSource # "none" /\ \A i \in 1..Len(events) : ~CarriesError(events[i])) =>
          chunks = FragmentsOf(events)
    /\ StreamCompleted => Join(chunks) = streamPromise.answer

C3_Witness ==
    /\ StreamCompleted
    /\ chunks = <<"a", "b">>
    /\ Len(events) = 3
    /\ streamPromise.answer = "ab"

(***************************************************************************)
(* C4: an event with a non-empty error field fails the streaming attempt   *)
(* with that text at once: it is the last event processed, its answer and  *)
(* identifier are not taken, the callback is not called for it, and the    *)
(* connection is closed whether or not a done flag was seen.               *)
(***************************************************************************)
C4_ErrorEventFailsAtOnce ==
    \A i \in 1..Len(events) :
        CarriesError(events[i]) =>
            /\ i = Len(events)
            /\ streamPromise = Rejected(events[i].error)
            /\ eventSource = "closed"
            /\ ~streamTimer.pending
            /\ chunks = FragmentsOf(Front(events))
            /\ accumulatedAnswer = Join(FragmentsOf(Front(events)))
            /\ conversationId = OrElse(LastIdOf(Front(events)), "")

C4_Witness ==
    /\ Len(events) = 2
    /\ events[1] = SSEObject(Absent, "a", Absent, FALSE)
    /\ events[2] = SSEObject("c1", "a", "boom", TRUE)
    /\ streamPromise = Rejected("boom")
    /\ chunks = <<"a">>
    /\ pc = "settled"

C6_TimeoutPerAttempt ==
    /\ connections > 0 => streamTimer.deadline = streamTimer.armedAt + Timeout
    /\ posts # <<>> =>
          /\ fetchTimer.deadline = fetchTimer.armedAt + Timeout
          /\ fetchTimer.pending => now <= fetchTimer.deadline
          /\ (pc = "settled" /\ nonStreamingPromise = Rejected("Request timeout")) =>
                now >= fetchTimer.armedAt + Timeout

C6_Witness ==
    /\ streamPromise = Rejected("Request timeout")
    /\ fetchTimer.armedAt = Timeout
    /\ fetchTimer.deadline = 2 * Timeout
    /\ nonStreamingPromise = Rejected("Request timeout")
    /\ now = 2 * Timeout

(***************************************************************************)
(* C7: a streaming attempt reaches exactly one terminal state: resolve or  *)
(* reject is called at most once, a resolution comes from a done-flagged   *)
(* event, and, when the clock runs and the timer may fire, an attempt that *)
(* has started does not stay unsettled for ever.                           *)
(***************************************************************************)
C7_StreamReachesOneTerminalState ==
    /\ [](/\ streamSettles <= 1
          /\ streamSettles = 1 <=> streamPromise.kind # "pending"
          /\ StreamCompleted => events # <<>> /\ Last(events).done)
    /\ (pc = "streaming") ~> (streamPromise.kind # "pending")

C7_Witness ==
    /\ streamPromise = Rejected("Request timeout")
    /\ streamSettles = 1
    /\ Len(events) = 2
    /\ chunks # <<>>

(***************************************************************************)
(* C8: once the streaming attempt has settled, and all the time the        *)
(* fallback runs and after it, no further stream event is processed and    *)
(* the fragment callback is not called again; so a connection that failed  *)
(* before any fragment leaves no fragment reported.                        *)
(***************************************************************************)
C8_NoEventAfterTerminalState ==
    [][(streamPromise.kind # "pending" \/ InFallback \/ pc = "settled") =>
          (events' = events /\ chunks' = chunks)]_vars

C8_Witness ==
    /\ streamPromise = Rejected("SSE connection error")
    /\ pc = "settled"
    /\ Len(events) = 1
    /\ chunks = <<"a">>
    /\ now > fetchTimer.armedAt

C10_FinalConversationId ==
    StreamCompleted =>
        streamPromise.conversationId =
            IF LastIdOf(events) # Absent THEN LastIdOf(events)
            ELSE IF request.conversationId # Absent THEN request.conversationId
            ELSE ""

C10_Witness ==
    /\ StreamCompleted
    /\ request.conversationId = "c0"
    /\ Len(events) = 2
    /\ events[1].conversationId = "c1"
    /\ events[2].conversationId = "c2"
    /\ streamPromise.conversationId = "c2"

(***************************************************************************)
(* C11: a fallback attempt is never unsettled past the configured timeout, *)
(* counted from its start, whether it awaits the response or reads the     *)
(* response body.                                                          *)
(***************************************************************************)
C11_FallbackSettlesWithinTimeout ==
    InFallback => now <= fetchTimer.armedAt + Timeout

(***************************************************************************)
(* C12: an event whose payload is no structured data is ignored: handling  *)
(* it changes neither the accumulated answer nor the conversation          *)
(* identifier, calls no callback, leaves the connection open, the timer    *)
(* pending and the promise unsettled; and a stream that saw such events    *)
(* still completes with the fragments of its other events.                 *)
(***************************************************************************)
Unparseable(e) == e.shape # "object"

C12_UnparseableEventIgnored ==
    /\ [][(events' # events /\ Unparseable(Last(events'))) =>
             /\ accumulatedAnswer' = accumulatedAnswer
             /\ conversationId' = conversationId
             /\ chunks' = chunks
             /\ eventSource' = "open"
             /\ streamTimer' = streamTimer
             /\ streamTimer'.pending
             /\ streamPromise' = Pending
             /\ streamSettles' = 0]_vars
    /\ [](StreamCompleted => streamPromise.answer = Join(FragmentsOf(events)))

C12_Witness ==
    /\ StreamCompleted
    /\ Len(events) = 3
    /\ events[1] = SSEObject(Absent, "a", Absent, FALSE)
    /\ events[2] = SSEInvalid
    /\ events[3] = SSEObject(Absent, "b", Absent, TRUE)
    /\ streamPromise.answer = "ab"
    /\ chunks = <<"a", "b">>

(***************************************************************************)
(* C13: a non-success status of the fallback POST fails the attempt and    *)
(* sendMessage with an error that carries that status and the text of the  *)
(* response body, or 'Unknown error' when the body cannot be read; no      *)
(* response is produced and the error is not turned into a timeout error.  *)
(***************************************************************************)
C13_HttpErrorSurfaced ==
    (pc = "settled" /\ httpStatus \notin {"", "200"}) =>
        /\ nonStreamingPromise =
               Rejected("HTTP " \o httpStatus \o ": " \o
                        (IF httpBody = Unreadable THEN "Unknown error" ELSE httpBody))
        /\ result = nonStreamingPromise
        /\ result.kind = "rejected"
        /\ result.error # "Request timeout"

C13_Witness ==
    /\ pc = "settled"
    /\ StreamFailed
    /\ httpStatus = "500"
    /\ httpBody = "server error"
    /\ result = Rejected("HTTP 500: server error")

(***************************************************************************)
(* C14: when a streaming attempt has settled, on whichever path, its       *)
(* connection is closed and its timer is not pending; when the fallback    *)
(* attempt has settled its timer is not pending.                           *)
(***************************************************************************)
C14_SettledAttemptLeavesNothingBehind ==
    /\ (streamPromise.kind # "pending" /\ connections > 0) =>
           eventSource = "closed" /\ ~streamTimer.pending
    /\ (streamPromise.kind # "pending" /\ connections = 0) =>
           eventSource = "none" /\ ~streamTimer.pending
    /\ nonStreamingPromise.kind # "pending" => ~fetchTimer.pending

C14_Witness ==
    /\ StreamFailed
    /\ streamPromise.error = "SSE connection error"
    /\ now < streamTimer.deadline
    /\ eventSource = "closed"
    /\ ~streamTimer.pending
    /\ nonStreamingPromise.kind = "rejected"
    /\ nonStreamingPromise.error = "Failed to fetch"
    /\ ~fetchTimer.pending

(***************************************************************************)
(* C15: one invocation opens at most one streaming connection and at most  *)
(* one fallback POST, the POST is issued only after the streaming attempt  *)
(* has settled as failed with its connection closed, and the two attempts  *)
(* are never active together.                                              *)
(***************************************************************************)
C15_AttemptsNeverConcurrent ==
    /\ connections <= 1
    /\ Len(posts) <= 1
    /\ (posts # <<>> /\ onChunk) =>
           StreamFailed /\ eventSource # "open" /\ ~streamTimer.pending
    /\ ~(eventSource = "open" /\ InFallback)
    /\ ~(streamTimer.pending /\ fetchTimer.pending)

C15_Witness ==
    /\ pc = "fetching"
    /\ onChunk
    /\ connections = 1
    /\ Len(posts) = 1
    /\ events # <<>>
    /\ eventSource = "closed"
    /\ fetchTimer.pending

(***************************************************************************)
(* C19: when the done-flagged event carries an answer fragment itself,     *)
(* the fragment is reported to the callback and appended to the answer     *)
(* before the attempt resolves: the resolved answer ends with it.          *)
(***************************************************************************)
C19_DoneEventFragmentIncluded ==
    (StreamCompleted /\ CarriesFragment(Last(events))) =>
        /\ Last(events).done
        /\ chunks # <<>>
        /\ Last(chunks) = Last(events).answer
        /\ Len(chunks) = Len(FragmentsOf(events))
        /\ streamPromise.answer =
               Join(FragmentsOf(Front(events))) \o Last(events).answer

C19_Witness ==
    /\ pc = "settled"
    /\ Len(events) = 3
    /\ events[1] = SSEObject(Absent, "a", Absent, FALSE)
    /\ events[2] = SSEObject("c1", "b", Absent, FALSE)
    /\ events[3] = SSEObject(Absent, "b", Absent, TRUE)
    /\ chunks = <<"a", "b", "b">>
    /\ result = Resolved("c1", "abb")

(***************************************************************************)
(* C16: in any interleaving of two overlapping invocations, what each      *)
(* invocation accumulates, reports, posts and returns is determined by its *)
(* own request and the events of its own connection, its connection stays  *)
(* open and its timer armed until it settles itself, and a step of one     *)
(* invocation leaves the locals of the other untouched.                    *)
(***************************************************************************)
C16_InvocationsIsolated ==
    /\ [](\A i \in Calls : calls[i].pc # "idle" =>
            LET own == calls[i]
                id == LastIdOf(own.events)
            IN  /\ cells[i].accumulatedAnswer = Join(FragmentsOf(own.events))
                /\ cells[i].conversationId = (IF id = Absent THEN "" ELSE id)
                /\ own.chunks = FragmentsOf(own.events)
                /\ own.streamPromise.kind = "resolved" =>
                       own.result =
                          Resolved(OrElse(id, OrElse(own.request.conversationId, "")),
                                   Join(FragmentsOf(own.events)))
                /\ \A k \in 1..Len(own.posts) :
                       CarriedRequest(own.posts[k]) = own.request
                /\ own.pc = "streaming" =>
                       /\ cells[i].eventSource = "open"
                       /\ cells[i].timer.pending
                       /\ cells[i].timer.deadline = own.startedAt + Timeout
                /\ own.pc = "fetching" =>
                       /\ cells[i].eventSource = "closed"
                       /\ cells[i].fetchTimer.pending)
    /\ [][\A i \in Calls : calls'[i] = calls[i] => cells'[i] = cells[i]]_vars

C16_Witness ==
    /\ calls[1].pc = "settled"
    /\ calls[1].result = Resolved("c2", "a")
    /\ calls[2].pc = "streaming"
    /\ calls[2].request # calls[1].request
    /\ calls[2].events = <<SSEObject("c1", "b", Absent, FALSE)>>
    /\ cells[2].accumulatedAnswer = "b"
    /\ cells[2].eventSource = "open"
    /\ cells[2].timer.pending

(***************************************************************************)
(* C17: a send started by Try Again follows a failed send and carries the  *)
(* request of that send: the same message, conversationId and history; and *)
(* while it is pending the conversation is the history of the failed send  *)
(* followed by the user message once.                                      *)
(***************************************************************************)
C17_RetryResubmitsSameRequest ==
    /\ \A k \in 1..Len(sends) :
          sends[k].via = "retry" =>
             /\ k > 1
             /\ sends[k - 1].outcome = "rejected"
             /\ sends[k].request = sends[k - 1].request
    /\ (/\ sends # <<>>
        /\ Last(sends).via = "retry"
        /\ Last(sends).outcome = "pending"
        /\ conversation.messages # <<>>) =>
          HistoryOf(conversation.messages) =
             Append(sends[Len(sends) - 1].request.history,
                    Turn("user", sends[Len(sends) - 1].request.message))

(***************************************************************************)
(* C18: from the opening of the page until the first user action the item  *)
(* in storage is the conversation an earlier session stored, and once the  *)
(* mount effects and the renders they cause are done the conversation in   *)
(* memory is that conversation, whether the effects run once or twice.     *)
(***************************************************************************)
C18_MountKeepsStoredConversation ==
    (storedAtMount # NoItem /\ ~userActed) =>
        /\ storage = storedAtMount
        /\ ChatIdle => conversation = ParseConversation(storedAtMount)

(***************************************************************************)
(* C20: at most one sendMessage call of the Chat component is pending; the *)
(* input is disabled exactly while one is, and an error, with its Try      *)
(* Again, is on screen only after the latest send has failed and while no  *)
(* send is pending.                                                        *)
(***************************************************************************)
C20_OneSendInFlight ==
    /\ Cardinality(InFlight) <= 1
    /\ InFlight # {} => isTyping /\ ~Truthy(chatError)
    /\ InFlight = {} => ~isTyping
    /\ Truthy(chatError) => sends # <<>> /\ Last(sends).outcome = "rejected"

C20_Witness ==
    /\ Len(sends) = 3
    /\ sends[1].via = "input" /\ sends[1].outcome = "rejected"
    /\ sends[2].via = "retry" /\ sends[2].outcome = "resolved"
    /\ sends[3].via = "input" /\ sends[3].outcome = "pending"
    /\ isTyping

(***************************************************************************)
(* C21: a send that fails leaves the conversation and its conversationId   *)
(* as they are, with the user message still last, sets the error to the    *)
(* message of the failure and clears the typing indicator; a send that     *)
(* succeeds appends one assistant message with the answer of the response  *)
(* directly after the user message and takes the conversationId of the     *)
(* response.                                                               *)
(***************************************************************************)
C21_SendOutcomeApplied ==
    [][\A k \in 1..Len(sends) :
          (/\ Len(sends') = Len(sends)
           /\ sends[k].outcome = "pending"
           /\ sends'[k].outcome # "pending") =>
             /\ ~isTyping'
             /\ conversation.messages # <<>>
             /\ Last(conversation.messages).role = "user"
             /\ Last(conversation.messages).content = sends[k].request.message
             /\ IF sends'[k].outcome = "rejected"
                THEN /\ conversation' = conversation
                     /\ chatError' = sends'[k].settled.error
                ELSE /\ Front(conversation'.messages) = conversation.messages
                     /\ Last(conversation'.messages).role = "assistant"
                     /\ Last(conversation'.messages).content = sends'[k].settled.answer
                     /\ conversation'.conversationId = sends'[k].settled.conversationId
                     /\ chatError' = chatError]_vars

(***************************************************************************)
(* C22, as stated: a send from the input box carries as history the        *)
(* messages the conversation held before the new user message, in order,   *)
(* as role and content only, carries the new message in the message field  *)
(* alone, and carries the conversationId of the most recent successful     *)
(* response, absent if there was none.                                     *)
(***************************************************************************)
Resolved_sends == { j \in 1..Len(sends) : sends[j].outcome = "resolved" }

MostRecentResponse ==
    sends[CHOOSE j \in Resolved_sends : \A l \in Resolved_sends : l <= j].settled

RolesAndContents(messages) ==
    [k \in 1..Len(messages) |->
        [role |-> messages[k].role, content |-> messages[k].content]]

InputSendStarts == Len(sends') = Len(sends) + 1 /\ Last(sends').via = "input"

HistoryIsConversationBefore ==
    /\ Last(sends').request.history = RolesAndContents(conversation.messages)
    /\ Front(conversation'.messages) = conversation.messages
    /\ Last(conversation'.messages).role = "user"
    /\ Last(conversation'.messages).content = Last(sends').request.message
    /\ Len(Last(sends').request.history) = Len(conversation'.messages) - 1

C23_StreamTimerBoundsAttempt ==
    /\ [](connections > 0 =>
             /\ streamTimer.armedAt = 0
             /\ streamTimer.deadline = Timeout)
    /\ [](streamTimer.pending =>
             /\ eventSource = "open"
             /\ streamPromise.kind = "pending"
             /\ now <= streamTimer.deadline)
    /\ [](eventSource = "open" => streamTimer.pending)
    /\ [][connections > 0 =>
             /\ streamTimer'.deadline = streamTimer.deadline
             /\ streamTimer'.armedAt = streamTimer.armedAt
             /\ streamTimer'.pending => streamTimer.pending]_vars
    /\ [][(streamTimer.pending /\ ~streamTimer'.pending /\ events' = events
             /\ now = streamTimer.deadline /\ eventSource' = "closed"
             /\ streamPromise' # Rejected("SSE connection error")) =>
                streamPromise' = Rejected("Request timeout")]_vars
    /\ [](streamPromise = Rejected("Request timeout") =>
             /\ now >= Timeout
             /\ eventSource = "closed"
             /\ pc # "streaming" => posts # <<>>)

C23_Witness ==
    /\ streamPromise = Rejected("Request timeout")
    /\ Len(chunks) = MaxEvents
    /\ \A k \in 1..MaxEvents : CarriesFragment(events[k])
    /\ accumulatedAnswer = Join(chunks)
    /\ now = Timeout
    /\ posts # <<>>

(***************************************************************************)
(* C24, as stated: whenever sendMessage returns a ChatResponse, the        *)
(* fragments reported to the callback during the invocation, concatenated, *)
(* are either empty or equal to the returned answer.                       *)
(***************************************************************************)
Returned == pc = "settled" /\ result.kind = "resolved"

C24_FragmentsAgreeWithAnswer ==
    Returned => (chunks = <<>> \/ Join(chunks) = result.answer)

(***************************************************************************)
(* C24, amended: a ChatResponse produced by the streaming attempt has as   *)
(* answer the concatenation of the fragments reported; a ChatResponse      *)
(* returned after a failed streaming attempt is the response of the        *)
(* fallback, whatever fragments were reported before the failure.          *)
(***************************************************************************)
C24_FragmentsAgreeWithStreamedAnswer ==
    Returned =>
        IF StreamCompleted
        THEN /\ Join(chunks) = result.answer
             /\ result = streamPromise
             /\ posts = <<>>
        ELSE /\ result = nonStreamingPromise
             /\ result \in ServerResponses
             /\ Len(posts) = 1

C24_Witness ==
    /\ Returned
    /\ StreamFailed
    /\ chunks = <<"a", "b">>
    /\ result = Resolved("c2", "ok")

(***************************************************************************)
(* C25: an event that carries no error and whose fragment is reported to   *)
(* the callback does not fail the attempt, its fragment is appended to the *)
(* accumulated answer, and a done flag on it completes the attempt with a  *)
(* ChatResponse, whether or not the callback throws.                       *)
(***************************************************************************)
C25_CallbackExceptionHarmless ==
    [][(/\ Len(events') = Len(events) + 1
        /\ streamPromise.kind = "pending"
        /\ CarriesFragment(Last(events'))
        /\ ~CarriesError(Last(events'))) =>
           /\ streamPromise'.kind # "rejected"
           /\ accumulatedAnswer' = accumulatedAnswer \o Last(events').answer
           /\ chunks' = Append(chunks, Last(events').answer)
           /\ Last(events').done =>
                 /\ streamPromise'.kind = "resolved"
                 /\ streamPromise'.answer = accumulatedAnswer']_vars

(***************************************************************************)
(* C26: once Clear Chat is confirmed the conversation holds no messages    *)
(* and no conversationId, in memory and in storage, until the user next    *)
(* sends a message: the confirmed clear empties both, and no later step    *)
(* other than the start of a send puts anything back, a response to a send *)
(* that was in flight included.                                            *)
(***************************************************************************)
StorageCleared == storage \in {NoItem, StringifyConversation(EmptyConversation)}

ClearedAndLoaded ==
    /\ mounted
    /\ conversation = EmptyConversation
    /\ updates = <<>>
    /\ effects \in {<<>>, <<"save">>}

C26_ClearedUntilNextSend ==
    [][/\ (mounted /\ conversation # EmptyConversation /\ conversation' = EmptyConversation)
            => storage' = NoItem
       /\ (ClearedAndLoaded /\ Len(sends') = Len(sends)) =>
             /\ conversation' = EmptyConversation
             /\ StorageCleared'
             /\ ChatIdle' => StorageCleared']_vars

(***************************************************************************)
(* C27: given the same request, callback and environment, the client with  *)
(* telemetry and the client without open the same connections and issue    *)
(* the same POSTs in the same order, report the same fragments in the same *)
(* order, and settle together with the same ChatResponse or the same       *)
(* error.                                                                  *)
(***************************************************************************)
C27_ClientsEquivalent ==
    /\ twin["traced"].connections = twin["plain"].connections
    /\ twin["traced"].posts = twin["plain"].posts
    /\ twin["traced"].chunks = twin["plain"].chunks
    /\ twin["traced"].pc = twin["plain"].pc
    /\ twin["traced"].result = twin["plain"].result

====
